---- MODULE Spec2Model ----
(***************************************************************************)
(* Model of messaging/__init__.py: the SubMaster aggregator (per-topic     *)
(* state, the update tick, the alive / freq_ok / valid predicates and the  *)
(* aggregate checks), PubMaster.wait_for_readers_to_update, and the        *)
(* receive utilities drain_sock_raw, drain_sock, recv_sock and             *)
(* recv_one_retry on one subscriber socket.                                *)
(*                                                                         *)
(* Time.  The code works with float seconds.  The model counts time in     *)
(* ticks of 1/TicksPerSec second, so that 0.05 s, 0.0625 s and 0.5 s are   *)
(* the integers 4, 5 and 40, and every float comparison of the code is     *)
(* written as the equivalent comparison of integer cross products:         *)
(*     (cur - recv) < 10. / f        <=>  (cur - recv) * f < 10 * U        *)
(*     sum / len < 1 / (f * 0.90)    <=>  9 * f * sum < 10 * U * len       *)
(*     t > 1e-5                      <=>  t > U \div 100000  (t integer)   *)
(* with U = TicksPerSec.  Float rounding is not modelled.                  *)
(*                                                                         *)
(* Transport.  Poller.poll and SubSocket.receive are external; update()    *)
(* takes their results as inputs: the set of polled sockets reported       *)
(* ready, and for every socket read the message received or None.          *)
(***************************************************************************)
EXTENDS Integers, Sequences, FiniteSets, TLC

\* ------------------------------------------------------------------------
\* Bounds of the model
\* ------------------------------------------------------------------------
TicksPerSec == 80          \* model ticks per second (time resolution)
MaxFrame == 0              \* Spec: update() is called while frame < MaxFrame
MaxRunFrame == 2           \* SpecRun: update() is called while frame < MaxRunFrame
MaxFeedFrame == 101        \* SpecFeed: the feed runs while frame < MaxFeedFrame
MaxQueryFrame == 0         \* SpecQuery: update() is called while frame < MaxQueryFrame
MaxTimeout == 6            \* SpecWait: timeouts of 0..MaxTimeout ticks
MaxDt == 3                 \* SpecWait: poll intervals of 1..MaxDt ticks
MaxSent == 4               \* SpecSock: messages published to the socket
MaxRetries == 2            \* SpecSock: the count of empty receives stops here
BootClock == 80000         \* a monotonic clock value well after boot (1000 s)

InitClocks == {0, BootClock}         \* time.monotonic() at construction
Steps == {0, 4, 40}                  \* time passing between two updates
FeedPeriods == {4, 5}                \* 0.05 s and 0.0625 s
LogTimes == {7}                      \* producer timestamps of messages
Payloads == {1}                      \* payload values of messages

\* ------------------------------------------------------------------------
\* Program constants and the topic registry
\* ------------------------------------------------------------------------
AVG_FREQ_HISTORY == 100

\* the services argument of SubMaster.__init__ (a list)
services == <<"svc20", "svc0">>
ServiceSet == {services[i] : i \in 1..Len(services)}

\* SERVICE_LIST[s].frequency in Hz
SERVICE_LIST == [s \in ServiceSet |-> IF s = "svc20" THEN 20 ELSE 0]

\* the absent value returned by a receive that has nothing
None == [which |-> "None", valid |-> FALSE, logMonoTime |-> 0, data |-> 0]

\* decoded events on the sockets of the tracked services
Msgs == [which : ServiceSet, valid : BOOLEAN, logMonoTime : LogTimes, data : Payloads]

VARIABLES
  frame, updated, recv_time, recv_frame, alive, freq_ok, recv_dts,
  data, valid, logMonoTime,
  non_polled_services, ignore_average_freq, ignore_alive, ignore_valid,
  poll, simulation,      \* constructor argument poll, env SIMULATION
  clock,                 \* time.monotonic()
  startTime,             \* time.monotonic() when the SubMaster was built
  msgs,                  \* the list msgs of the latest update()
  call,                  \* the latest query made on the SubMaster
  pub,                   \* PubMaster.wait_for_readers_to_update in progress
  sock                   \* a subscriber socket and the receive call on it

config == <<non_polled_services, ignore_average_freq, ignore_alive, ignore_valid,
            poll, simulation, startTime>>
vars == <<frame, updated, recv_time, recv_frame, alive, freq_ok, recv_dts,
          data, valid, logMonoTime,
          non_polled_services, ignore_average_freq, ignore_alive, ignore_valid,
          poll, simulation, clock, startTime, msgs, call, pub, sock>>

\* the SubMaster and its clock
subVars == <<frame, updated, recv_time, recv_frame, alive, freq_ok, recv_dts,
             data, valid, logMonoTime,
             non_polled_services, ignore_average_freq, ignore_alive, ignore_valid,
             poll, simulation, clock, startTime, msgs>>

\* ------------------------------------------------------------------------
\* Float comparisons of the code, on ticks
\* ------------------------------------------------------------------------
\* t > 1e-5 for a time t in ticks
TimeGtEps(t) == t > TicksPerSec \div 100000

\* f > 1e-5 for a frequency f in Hz
FreqGtEps(f) == f * 100000 > 1

RECURSIVE SumSeq(_)
SumSeq(q) == IF q = <<>> THEN 0 ELSE Head(q) + SumSeq(Tail(q))

\* variant: a full deque drops its newest entry instead of its oldest
DequeAppendDropNewest(q, x) ==
  IF Len(q) >= AVG_FREQ_HISTORY THEN Append(SubSeq(q, 1, Len(q) - 1), x) ELSE Append(q, x)

\* deque(maxlen=AVG_FREQ_HISTORY).append(x)
DequeAppend(q, x) ==
  IF Len(q) >= AVG_FREQ_HISTORY THEN Append(Tail(q), x) ELSE Append(q, x)

\* ------------------------------------------------------------------------
\* PubMaster.wait_for_readers_to_update
\* ------------------------------------------------------------------------
\* no call in progress
PubIdle == [pc |-> "idle", n |-> 0, i |-> 0, t |-> 0, timeout |-> 0, dt |-> 1,
            upd |-> FALSE, trueAt |-> -1, ret |-> FALSE]

\* int(timeout*(1./dt)), the number of iterations of the loop
Iterations(timeout, dt) == timeout \div dt

\* the call: upd0 is all_readers_updated() at the time of the call; trueAt
\* is the time since the call at which it became true, -1 while it is false
WaitCall(timeout, dt, upd0) ==
  /\ pub.pc = "idle"
  /\ pub' = [pc |-> "loop", n |-> Iterations(timeout, dt), i |-> 0, t |-> 0,
             timeout |-> timeout, dt |-> dt, upd |-> upd0,
             trueAt |-> IF upd0 THEN 0 ELSE -1, ret |-> FALSE]
  /\ UNCHANGED <<subVars, call, sock>>

\* the head of the for loop and the test of all_readers_updated()
WaitPoll ==
  /\ pub.pc = "loop"
  /\ pub' = IF pub.i < pub.n
              THEN IF pub.upd THEN [pub EXCEPT !.pc = "done", !.ret = TRUE]
                              ELSE [pub EXCEPT !.pc = "sleep"]
              ELSE [pub EXCEPT !.pc = "done", !.ret = FALSE]
  /\ UNCHANGED <<subVars, call, sock>>

\* time.sleep(dt); the readers may catch up o ticks into the sleep
WaitSleep ==
  /\ pub.pc = "sleep"
  /\ \E o \in 0..pub.dt :
       pub' = [pub EXCEPT !.pc = "loop", !.i = @ + 1, !.t = @ + pub.dt,
                          !.upd = (o > 0),
                          !.trueAt = IF o > 0 THEN pub.t + o ELSE -1]
  /\ UNCHANGED <<subVars, call, sock>>

\* the caller has the result
WaitReturn ==
  /\ pub.pc = "done"
  /\ pub' = PubIdle
  /\ UNCHANGED <<subVars, call, sock>>

\* ------------------------------------------------------------------------
\* drain_sock_raw, drain_sock, recv_sock, recv_one_retry
\* ------------------------------------------------------------------------
\* the k-th message published to the socket, as bytes
Bytes(k) == [kind |-> "bytes", id |-> k]

\* the absent value of receive()
NoBytes == [kind |-> "none", id |-> 0]

\* log_from_bytes
log_from_bytes(dat) == [kind |-> "event", id |-> dat.id]

SockFns == {"drain_sock_raw", "drain_sock", "recv_sock", "recv_one_retry"}

\* a socket with queue q on which k messages were published, no call
SockIdle(q, k) ==
  [ q |-> q, sent |-> k, pc |-> "idle", fn |-> "none", wait |-> FALSE,
    ret |-> <<>>, dat |-> NoBytes, log |-> <<>>, q0 |-> <<>>, arrivals |-> 0,
    retries |-> 0 ]

\* a publisher's message reaches the queue; arrivals counts the messages
\* that arrived since the latest call was made
Arrive ==
  /\ sock.sent < MaxSent
  /\ sock' = [sock EXCEPT !.q = Append(@, Bytes(sock.sent + 1)),
                          !.sent = @ + 1,
                          !.arrivals = IF sock.pc # "idle" THEN @ + 1 ELSE @]
  /\ UNCHANGED <<subVars, call, pub>>

\* a call of one of the functions; q0 records the queue at the call
SockCall(fn, wait) ==
  /\ sock.pc = "idle"
  /\ sock' = [sock EXCEPT !.pc = "loop", !.fn = fn, !.wait = wait,
                          !.ret = <<>>, !.dat = NoBytes, !.log = <<>>,
                          !.q0 = sock.q, !.arrivals = 0, !.retries = 0]
  /\ UNCHANGED <<subVars, call, pub>>

\* variant: wait mode blocks on every receive
UseBlockingAlways(wait, nothingYet) == wait

\* "wait_for_one and len(ret) == 0", "wait and dat is None"
UseBlocking(wait, nothingYet) == wait /\ nothingYet

\* sock.receive(non_blocking): the head of the queue; on an empty queue the
\* absent value, at once or when the receive timeout is hit
sock_receive(q) == IF q = <<>> THEN NoBytes ELSE Head(q)

\* variant: recv_sock keeps the first message it received
KeepFirst(dat, recv) == IF dat = NoBytes THEN recv ELSE dat

\* dat = recv
KeepLatest(dat, recv) == recv

\* variant: recv_one_retry returns whatever it received
RetryGotAny(dat) == TRUE

\* "if dat is not None" of recv_one_retry
RetryGot(dat) == dat # NoBytes

\* one iteration of the loop of the function called; log is the list of
\* the receives made by the drain and keep-latest loops, retries the number
\* of receives of recv_one_retry that returned the absent value (counted up
\* to MaxRetries)
SockStep ==
  /\ sock.pc = "loop"
  /\ LET blocking ==
           CASE sock.fn \in {"drain_sock_raw", "drain_sock"}
                  -> UseBlocking(sock.wait, Len(sock.ret) = 0)
             [] sock.fn = "recv_sock" -> UseBlocking(sock.wait, sock.dat = NoBytes)
             [] OTHER -> TRUE
         recv == sock_receive(sock.q)
         rest == IF sock.q = <<>> THEN <<>> ELSE Tail(sock.q)
         entry == [mode |-> IF blocking THEN "blocking" ELSE "non_blocking",
                   got |-> recv]
         s1 == [sock EXCEPT !.q = rest, !.log = Append(@, entry)]
     IN
     sock' =
       CASE sock.fn = "drain_sock_raw" ->
              IF recv = NoBytes THEN [s1 EXCEPT !.pc = "done"]
              ELSE [s1 EXCEPT !.ret = Append(@, recv)]
         [] sock.fn = "drain_sock" ->
              IF recv = NoBytes THEN [s1 EXCEPT !.pc = "done"]
              ELSE [s1 EXCEPT !.ret = Append(@, log_from_bytes(recv))]
         [] sock.fn = "recv_sock" ->
              IF recv = NoBytes
                THEN [s1 EXCEPT !.pc = "done",
                                !.dat = IF sock.dat # NoBytes
                                          THEN log_from_bytes(sock.dat) ELSE sock.dat]
                ELSE [s1 EXCEPT !.dat = KeepLatest(sock.dat, recv)]
         [] OTHER ->
              IF RetryGot(recv)
                THEN [sock EXCEPT !.q = rest, !.pc = "done",
                                  !.dat = IF recv = NoBytes THEN recv
                                          ELSE log_from_bytes(recv)]
                ELSE [sock EXCEPT !.retries = IF @ < MaxRetries THEN @ + 1 ELSE @]
  /\ UNCHANGED <<subVars, call, pub>>

\* the caller has the result
SockReturn ==
  /\ sock.pc = "done"
  /\ sock' = SockIdle(sock.q, sock.sent)
  /\ UNCHANGED <<subVars, call, pub>>

\* nothing but the SubMaster is in use
Quiet == pub = PubIdle /\ sock = SockIdle(<<>>, 0)

\* no query made yet
NoCall == [op |-> "none", arg |-> <<"None", {}>>, ret |-> FALSE, item |-> 0]

\* ------------------------------------------------------------------------
\* SubMaster.__init__
\* ------------------------------------------------------------------------
\* poll is None, or a list of service names (here: a set of tracked names)
NoPoll == "None"
PollArgs == {<<NoPoll, {}>>} \cup {<<"list", p>> : p \in SUBSET ServiceSet}

\* variant: an empty poll list is not treated like None
NonPolledNoLen(p) == {s \in ServiceSet : p[1] # NoPoll /\ s \notin p[2]}

\* [s for s in services if poll is not None and len(poll) and s not in poll]
NonPolled(p) ==
  {s \in ServiceSet : p[1] # NoPoll /\ Cardinality(p[2]) # 0 /\ s \notin p[2]}

\* variant: SIMULATION does not override the ignore_alive argument
IgnoreAliveNoSim(arg, sim) == arg

\* self.ignore_alive after the SIMULATION override
IgnoreAliveOf(arg, sim) == IF sim THEN ServiceSet ELSE arg

\* self.ignore_average_freq after the SIMULATION override
IgnoreAvgFreqOf(arg, sim) == IF sim THEN ServiceSet ELSE arg

InitWith(p, ia, iaf, iv, sim, t) ==
  /\ frame = -1
  /\ updated = [s \in ServiceSet |-> FALSE]
  /\ recv_time = [s \in ServiceSet |-> 0]
  /\ recv_frame = [s \in ServiceSet |-> 0]
  /\ alive = [s \in ServiceSet |-> FALSE]
  /\ freq_ok = [s \in ServiceSet |-> FALSE]
  /\ recv_dts = [s \in ServiceSet |-> <<>>]
  /\ data = [s \in ServiceSet |-> 0]
  /\ logMonoTime = [s \in ServiceSet |-> 0]
  /\ valid = [s \in ServiceSet |-> TRUE]
  /\ poll = p
  /\ non_polled_services = NonPolled(p)
  /\ ignore_average_freq = IgnoreAvgFreqOf(iaf, sim)
  /\ ignore_alive = IgnoreAliveOf(ia, sim)
  /\ ignore_valid = iv
  /\ simulation = sim
  /\ clock = t
  /\ startTime = t
  /\ msgs = <<>>
  /\ call = NoCall

Init ==
  \E p \in PollArgs, ia \in SUBSET ServiceSet, iaf \in SUBSET ServiceSet,
     iv \in SUBSET ServiceSet, sim \in BOOLEAN, t \in InitClocks :
       InitWith(p, ia, iaf, iv, sim, t) /\ Quiet

\* ------------------------------------------------------------------------
\* SubMaster._check_avg_freq
\* ------------------------------------------------------------------------
\* variant: the alive-ignore list does not switch the rate check off
check_avg_freqNoAlive(s, rt) ==
  /\ TimeGtEps(rt[s])
  /\ FreqGtEps(SERVICE_LIST[s])
  /\ s \notin non_polled_services
  /\ s \notin ignore_average_freq

\* variant: the rate check also applies before any message was received
check_avg_freqNoRecv(s, rt) ==
  /\ FreqGtEps(SERVICE_LIST[s])
  /\ s \notin non_polled_services
  /\ s \notin ignore_average_freq
  /\ s \notin ignore_alive

check_avg_freq(s, rt) ==
  /\ TimeGtEps(rt[s])
  /\ FreqGtEps(SERVICE_LIST[s])
  /\ s \notin non_polled_services
  /\ s \notin ignore_average_freq
  /\ s \notin ignore_alive

\* ------------------------------------------------------------------------
\* SubMaster.update_msgs
\* ------------------------------------------------------------------------
\* variant: the frame counter restarts at every update
FrameIncReset(f) == 0

\* self.frame += 1
FrameInc(f) == f + 1

\* variant: the updated flags are not reset
ResetUpdatedKeep(u) == u

\* self.updated = dict.fromkeys(self.updated, False)
ResetUpdated(u) == [s \in DOMAIN u |-> FALSE]

\* variant: every topic is stamped with the frame of a received message
ReceiveStampAll(st, msg, cur_time, fr) ==
  IF msg = None THEN st
  ELSE LET s == msg.which IN
    [ updated     |-> [st.updated EXCEPT ![s] = TRUE],
      recv_dts    |-> [st.recv_dts EXCEPT ![s] = DequeAppend(@, cur_time - st.recv_time[s])],
      recv_time   |-> [st.recv_time EXCEPT ![s] = cur_time],
      recv_frame  |-> [x \in DOMAIN st.recv_frame |-> fr],
      data        |-> [st.data EXCEPT ![s] = msg.data],
      logMonoTime |-> [st.logMonoTime EXCEPT ![s] = msg.logMonoTime],
      valid       |-> [st.valid EXCEPT ![s] = msg.valid] ]

\* variant: recv_time is assigned before the delta is taken
ReceiveDeltaAfter(st, msg, cur_time, fr) ==
  IF msg = None THEN st
  ELSE LET s == msg.which IN
    [ updated     |-> [st.updated EXCEPT ![s] = TRUE],
      recv_dts    |-> [st.recv_dts EXCEPT ![s] = DequeAppend(@, cur_time - cur_time)],
      recv_time   |-> [st.recv_time EXCEPT ![s] = cur_time],
      recv_frame  |-> [st.recv_frame EXCEPT ![s] = fr],
      data        |-> [st.data EXCEPT ![s] = msg.data],
      logMonoTime |-> [st.logMonoTime EXCEPT ![s] = msg.logMonoTime],
      valid       |-> [st.valid EXCEPT ![s] = msg.valid] ]

\* the body of "for msg in msgs" for one message, on the record st of the
\* per-topic dictionaries
Receive(st, msg, cur_time, fr) ==
  IF msg = None THEN st
  ELSE LET s == msg.which IN
    [ updated     |-> [st.updated EXCEPT ![s] = TRUE],
      recv_dts    |-> [st.recv_dts EXCEPT ![s] = DequeAppend(@, cur_time - st.recv_time[s])],
      recv_time   |-> [st.recv_time EXCEPT ![s] = cur_time],
      recv_frame  |-> [st.recv_frame EXCEPT ![s] = fr],
      data        |-> [st.data EXCEPT ![s] = msg.data],
      logMonoTime |-> [st.logMonoTime EXCEPT ![s] = msg.logMonoTime],
      valid       |-> [st.valid EXCEPT ![s] = msg.valid] ]

RECURSIVE ReceiveAll(_, _, _, _)
ReceiveAll(st, ms, cur_time, fr) ==
  IF ms = <<>> THEN st
  ELSE ReceiveAll(Receive(st, Head(ms), cur_time, fr), Tail(ms), cur_time, fr)

\* variant: the staleness bound is inclusive
IsAliveLe(cur_time, rt, f) == (cur_time - rt) * f <= 10 * TicksPerSec

\* (cur_time - self.recv_time[s]) < (10. / SERVICE_LIST[s].frequency)
IsAlive(cur_time, rt, f) == (cur_time - rt) * f < 10 * TicksPerSec

\* avg_dt < expected_dt, or False for an empty history
FreqOkOf(dts, f) ==
  IF Len(dts) > 0
    THEN 9 * f * SumSeq(dts) < 10 * TicksPerSec * Len(dts)
    ELSE FALSE

\* variant: a stale topic also loses freq_ok
HealthDegrading(s, cur_time, rt, dts) ==
  IF FreqGtEps(SERVICE_LIST[s])
    THEN [ alive   |-> IsAlive(cur_time, rt[s], SERVICE_LIST[s]),
           freq_ok |-> IF check_avg_freq(s, rt)
                         THEN FreqOkOf(dts[s], SERVICE_LIST[s])
                              /\ IsAlive(cur_time, rt[s], SERVICE_LIST[s])
                         ELSE TRUE ]
    ELSE [ alive |-> TRUE, freq_ok |-> TRUE ]

\* the body of "for s in self.data": the pair alive[s], freq_ok[s]
Health(s, cur_time, rt, dts) ==
  IF FreqGtEps(SERVICE_LIST[s])
    THEN [ alive   |-> IsAlive(cur_time, rt[s], SERVICE_LIST[s]),
           freq_ok |-> IF check_avg_freq(s, rt)
                         THEN FreqOkOf(dts[s], SERVICE_LIST[s])
                         ELSE TRUE ]
    ELSE [ alive |-> TRUE, freq_ok |-> TRUE ]

update_msgs(cur_time, ms) ==
  LET fr == FrameInc(frame)
      st0 == [ updated |-> ResetUpdated(updated), recv_dts |-> recv_dts,
               recv_time |-> recv_time, recv_frame |-> recv_frame,
               data |-> data, logMonoTime |-> logMonoTime, valid |-> valid ]
      st == ReceiveAll(st0, ms, cur_time, fr)
  IN
  /\ frame' = fr
  /\ updated' = st.updated
  /\ recv_dts' = st.recv_dts
  /\ recv_time' = st.recv_time
  /\ recv_frame' = st.recv_frame
  /\ data' = st.data
  /\ logMonoTime' = st.logMonoTime
  /\ valid' = st.valid
  /\ alive' = [s \in ServiceSet |-> Health(s, cur_time, st.recv_time, st.recv_dts).alive]
  /\ freq_ok' = [s \in ServiceSet |-> Health(s, cur_time, st.recv_time, st.recv_dts).freq_ok]

\* ------------------------------------------------------------------------
\* SubMaster.update
\* ------------------------------------------------------------------------
\* the sockets registered with the poller, in registration order
PolledList == SelectSeq(services, LAMBDA s : s \notin non_polled_services)
NonPolledList == SelectSeq(services, LAMBDA s : s \in non_polled_services)

\* recv_one_or_none on each socket of the list sl that is in the set rd
RECURSIVE RecvEach(_, _, _)
RecvEach(sl, rd, rx) ==
  IF sl = <<>> THEN <<>>
  ELSE IF Head(sl) \in rd
         THEN <<rx[Head(sl)]>> \o RecvEach(Tail(sl), rd, rx)
         ELSE RecvEach(Tail(sl), rd, rx)

\* what the transport may hand to one update: rd is the set of polled
\* sockets that poll() reports ready, rx[s] the result of the non-blocking
\* receive on the socket of s.  A ready (conflated) socket has a message; a
\* non-polled socket is read whether or not it has one.
Deliveries ==
  { d \in [ready : SUBSET ServiceSet, rx : [ServiceSet -> Msgs \cup {None}]] :
      /\ d.ready \cap non_polled_services = {}
      /\ \A s \in ServiceSet :
           /\ d.rx[s] # None => d.rx[s].which = s
           /\ s \in d.ready => d.rx[s] # None
           /\ (s \notin d.ready /\ s \notin non_polled_services) => d.rx[s] = None }

update(dt, d) ==
  LET ms == RecvEach(PolledList, d.ready, d.rx)
            \o RecvEach(NonPolledList, non_polled_services, d.rx)
      cur_time == clock + dt
  IN
  /\ clock' = cur_time
  /\ msgs' = ms
  /\ update_msgs(cur_time, ms)
  /\ UNCHANGED <<config, call, pub, sock>>

Update == \E dt \in Steps, d \in Deliveries : update(dt, d)

\* ------------------------------------------------------------------------
\* SubMaster.all_alive, all_freq_ok, all_valid, all_checks
\* ------------------------------------------------------------------------
\* the optional argument service_list: None, or a list of tracked names
OptLists == {<<NoPoll, {}>>} \cup {<<"list", l>> : l \in SUBSET ServiceSet}

\* if service_list is None: service_list = list(self.alive.keys())
ServiceListOf(sl) == IF sl[1] = NoPoll THEN DOMAIN alive ELSE sl[2]

\* variant: ignore_alive is not consulted
all_aliveNoFilter(sl) == \A s \in ServiceListOf(sl) : alive[s]

all_alive(sl) ==
  \A s \in ServiceListOf(sl) : s \notin ignore_alive => alive[s]

all_freq_ok(sl) ==
  \A s \in ServiceListOf(sl) : check_avg_freq(s, recv_time) => freq_ok[s]

\* variant: ignore_valid is not consulted
all_validNoFilter(sl) == \A s \in ServiceListOf(sl) : valid[s]

all_valid(sl) ==
  \A s \in ServiceListOf(sl) : s \notin ignore_valid => valid[s]

\* variant: the validity check is left out
all_checksNoValid(sl) == all_alive(sl) /\ all_freq_ok(sl)

all_checks(sl) == all_alive(sl) /\ all_freq_ok(sl) /\ all_valid(sl)

\* ------------------------------------------------------------------------
\* Calls of the query methods
\* ------------------------------------------------------------------------
QueryOps == {"all_alive", "all_freq_ok", "all_valid", "all_checks"}

QueryResult(op, sl) ==
  CASE op = "all_alive" -> all_alive(sl)
    [] op = "all_freq_ok" -> all_freq_ok(sl)
    [] op = "all_valid" -> all_valid(sl)
    [] OTHER -> all_checks(sl)

\* variant: a query consumes the updated flags
queryConsuming(op, sl) ==
  /\ call' = [op |-> op, arg |-> sl, ret |-> QueryResult(op, sl), item |-> 0]
  /\ updated' = [s \in DOMAIN updated |-> FALSE]
  /\ UNCHANGED <<frame, recv_time, recv_frame, alive, freq_ok, recv_dts,
                 data, valid, logMonoTime, config, clock, msgs, pub, sock>>

\* all_alive, all_freq_ok, all_valid, all_checks: only a value is returned
query(op, sl) ==
  /\ call' = [op |-> op, arg |-> sl, ret |-> QueryResult(op, sl), item |-> 0]
  /\ UNCHANGED <<subVars, pub, sock>>

Query == \E op \in QueryOps, sl \in OptLists : query(op, sl)

\* __getitem__: return self.data[s]
GetItem ==
  \E s \in ServiceSet :
    /\ call' = [op |-> "getitem", arg |-> <<"key", {s}>>, ret |-> FALSE, item |-> data[s]]
    /\ UNCHANGED <<subVars, pub, sock>>

\* ------------------------------------------------------------------------
\* Specifications
\* ------------------------------------------------------------------------
\* Spec: every constructor call, then update() with any delivery
Next == frame < MaxFrame /\ Update

Spec == Init /\ [][Next]_vars

\* SpecRun: longer runs of update() from a few constructor calls
RunPollArgs == {<<NoPoll, {}>>, <<"list", {"svc0"}>>}
RunIgnoreArgs == {{}, {"svc20"}}

InitRun ==
  \E p \in RunPollArgs, ia \in RunIgnoreArgs, t \in InitClocks :
    InitWith(p, ia, {}, {}, FALSE, t) /\ Quiet

NextRun == frame < MaxRunFrame /\ Update

SpecRun == InitRun /\ [][NextRun]_vars

\* SpecFeed: a publisher that delivers one message of FeedTopic to every
\* update, at a period that is fixed from the second message on
FeedTopic == "svc20"

InitFeed ==
  \E t \in InitClocks : InitWith(<<NoPoll, {}>>, {}, {}, {}, FALSE, t) /\ Quiet

FeedMsg == [which |-> FeedTopic, valid |-> TRUE, logMonoTime |-> 7, data |-> 1]

FeedUpdate(p) ==
  /\ IF Len(recv_dts[FeedTopic]) <= 1 THEN TRUE
     ELSE recv_dts[FeedTopic][Len(recv_dts[FeedTopic])] = p
  /\ update(p, [ready |-> {FeedTopic},
                rx |-> [s \in ServiceSet |-> IF s = FeedTopic THEN FeedMsg ELSE None]])

NextFeed == frame < MaxFeedFrame /\ \E p \in FeedPeriods : FeedUpdate(p)

SpecFeed == InitFeed /\ [][NextFeed]_vars

\* SpecQuery: updates interleaved with calls of the query methods
NextQuery == (frame < MaxQueryFrame /\ Update) \/ Query \/ GetItem

SpecQuery == InitRun /\ [][NextQuery]_vars

\* SpecWait: calls of PubMaster.wait_for_readers_to_update
InitOthers ==
  /\ InitWith(<<NoPoll, {}>>, {}, {}, {}, FALSE, 0)
  /\ pub = PubIdle
  /\ sock = SockIdle(<<>>, 0)

NextWait ==
  \/ \E timeout \in 0..MaxTimeout, dt \in 1..MaxDt, upd0 \in BOOLEAN :
       WaitCall(timeout, dt, upd0)
  \/ WaitPoll
  \/ WaitSleep
  \/ WaitReturn

SpecWait == InitOthers /\ [][NextWait]_vars

\* SpecSock: calls of the receive utilities on a socket that messages
\* arrive on; SpecSockFair: the caller's loop keeps running
NextSock ==
  \/ Arrive
  \/ \E fn \in SockFns, wait \in BOOLEAN : SockCall(fn, wait)
  \/ SockStep
  \/ SockReturn

SpecSock == InitOthers /\ [][NextSock]_vars

SpecSockFair == InitOthers /\ [][NextSock]_vars /\ WF_vars(SockStep)

\* ========================================================================
\* Properties
\* ========================================================================
\* the topics with a positive expected frequency
PosFreq == {s \in ServiceSet : SERVICE_LIST[s] > 0}

\* a non-absent message of topic s is in the list of the latest update
Received(s) == \E i \in 1..Len(msgs) : msgs[i] # None /\ msgs[i].which = s
MsgOf(s) == msgs[CHOOSE i \in 1..Len(msgs) : msgs[i] # None /\ msgs[i].which = s]

\* no message of s has been processed since construction (the history is
\* only ever appended to)
NeverReceived(s) == recv_dts[s] = <<>>

\* a service_list argument that is the list of the set S
List(S) == <<"list", S>>

\* ------------------------------------------------------------------------
\* C1: frame is -1 after construction, and every update increases it by
\* exactly 1, whether or not a message arrived; nothing decreases or resets
\* it (so it is 0 after the first update).
C1_FrameCounts == (frame = -1) /\ [][frame' = frame + 1]_vars

\* two updates without any message have been counted
C1_Witness == frame = 1 /\ clock = startTime /\ \A s \in ServiceSet : NeverReceived(s)

\* ------------------------------------------------------------------------
\* C2 as stated: a 20 Hz topic that received nothing since the aggregator
\* started is alive after an update exactly while less than 0.5 s has
\* elapsed since the start.
C2_AliveSinceStart ==
  frame >= 0 =>
    \A s \in ServiceSet :
      (SERVICE_LIST[s] = 20 /\ NeverReceived(s)) =>
        (alive[s] <=> 2 * (clock - startTime) < TicksPerSec)

\* C2 amended: after each update alive = (now - recvTime) < 10/f for every
\* topic of positive frequency f; a 20 Hz topic that received nothing has
\* recvTime 0, so it is alive exactly while the clock value itself is below
\* 0.5 s.
C2_AliveFormula ==
  frame >= 0 =>
    /\ \A s \in PosFreq :
         alive[s] <=> (clock - recv_time[s]) * SERVICE_LIST[s] < 10 * TicksPerSec
    /\ \A s \in ServiceSet :
         (SERVICE_LIST[s] = 20 /\ NeverReceived(s)) =>
           (alive[s] <=> 2 * clock < TicksPerSec)

\* nothing received, no time elapsed since the start, and not alive
C2_Witness ==
  /\ frame >= 0 /\ NeverReceived("svc20")
  /\ clock = startTime /\ 2 * clock >= TicksPerSec
  /\ ~alive["svc20"]

\* ------------------------------------------------------------------------
\* C3 as stated: after at least 100 consecutive updates that each deliver
\* one message of a polled, non-ignored 20 Hz topic, freq_ok is true when
\* the period is 0.05 s and false when it is 0.0625 s.
C3_FreqOkAtNominalRate ==
  (frame >= 99 /\ Len(recv_dts[FeedTopic]) >= 2) =>
    LET p == recv_dts[FeedTopic][Len(recv_dts[FeedTopic])] IN
      /\ 20 * p = TicksPerSec => freq_ok[FeedTopic]
      /\ 16 * p = TicksPerSec => ~freq_ok[FeedTopic]

\* ------------------------------------------------------------------------
\* C4 as stated: a topic of the alive-ignore set has alive = true in every
\* reachable state, and all_alive does not depend on it.
C4_IgnoredAlwaysAlive ==
  \A s \in ignore_alive :
    /\ alive[s]
    /\ \A S \in SUBSET ServiceSet :
         all_alive(List(S \cup {s})) = all_alive(List(S \ {s}))

\* C4 amended: all_alive(subset) is the same with or without a topic of the
\* alive-ignore set; alive[topic] itself is not forced: it is false before
\* the first update, and after an update it is (now - recvTime) < 10/f for a
\* positive frequency f, as for any other topic.
C4_AllAliveSkipsIgnored ==
  \A s \in ignore_alive :
    /\ \A S \in SUBSET ServiceSet :
         all_alive(List(S \cup {s})) = all_alive(List(S \ {s}))
    /\ all_alive(<<NoPoll, {}>>) = all_alive(List(ServiceSet \ {s}))
    /\ frame = -1 => ~alive[s]
    /\ (frame >= 0 /\ s \in PosFreq) =>
         (alive[s] <=> (clock - recv_time[s]) * SERVICE_LIST[s] < 10 * TicksPerSec)

\* an ignored topic is not alive after an update, and all_alive is true
C4_Witness ==
  /\ frame >= 0
  /\ \E s \in ignore_alive : ~alive[s] /\ all_alive(List({s})) /\ all_alive(<<NoPoll, {}>>)

\* ------------------------------------------------------------------------
\* C5 as stated: a topic of the validity-ignore set has valid = true in
\* every reachable state, and all_valid does not depend on it.
C5_IgnoredAlwaysValid ==
  \A s \in ignore_valid :
    /\ valid[s]
    /\ \A S \in SUBSET ServiceSet :
         all_valid(List(S \cup {s})) = all_valid(List(S \ {s}))

\* C5 amended: all_valid(subset) is the same with or without a topic of the
\* validity-ignore set, whatever the other ignore sets; valid[topic] itself
\* is not forced: it is the validity flag of the message just received, and
\* true while no message has been received.
C5_AllValidSkipsIgnored ==
  \A s \in ignore_valid :
    /\ \A S \in SUBSET ServiceSet :
         all_valid(List(S \cup {s})) = all_valid(List(S \ {s}))
    /\ all_valid(<<NoPoll, {}>>) = all_valid(List(ServiceSet \ {s}))
    /\ NeverReceived(s) => valid[s]
    /\ Received(s) => valid[s] = MsgOf(s).valid

\* an ignored topic (also alive- and rate-ignored) received an invalid
\* message, and all_valid is true
C5_Witness ==
  \E s \in ignore_valid \cap ignore_alive \cap ignore_average_freq :
    /\ Received(s) /\ ~valid[s]
    /\ all_valid(List({s})) /\ all_valid(<<NoPoll, {}>>)

\* ------------------------------------------------------------------------
\* C6 as stated: with the simulation override, every tracked topic has
\* alive = true and freq_ok = true after the first update, whatever the
\* clock and even without any message.
C6_SimAllAliveAndFreqOk ==
  (simulation /\ frame >= 0) => \A s \in ServiceSet : alive[s] /\ freq_ok[s]

\* C6 amended: with the simulation override, after the first update every
\* tracked topic has freq_ok = true, and all_alive and all_freq_ok are true
\* for every subset; alive[topic] itself is still (now - recvTime) < 10/f
\* for a positive frequency f (true for frequency zero).
C6_SimFreqOkAndAllAlive ==
  (simulation /\ frame >= 0) =>
    /\ \A s \in ServiceSet : freq_ok[s]
    /\ \A sl \in OptLists : all_alive(sl) /\ all_freq_ok(sl)
    /\ \A s \in ServiceSet :
         alive[s] <=> \/ s \notin PosFreq
                      \/ (clock - recv_time[s]) * SERVICE_LIST[s] < 10 * TicksPerSec

\* the first update, without any message: a topic is not alive, freq_ok holds
C6_Witness ==
  /\ simulation /\ frame = 0 /\ \A s \in ServiceSet : NeverReceived(s)
  /\ ~alive["svc20"] /\ freq_ok["svc20"] /\ all_alive(<<NoPoll, {}>>)

\* ------------------------------------------------------------------------
\* the topics the average-rate check is configured for
RateChecked(s) ==
  /\ s \in PosFreq
  /\ s \notin non_polled_services
  /\ s \notin ignore_average_freq
  /\ s \notin ignore_alive

\* C7 as stated: once a rate-checked topic that has published is silent for
\* 10/f or longer, both alive and freq_ok are false after the update.
C7_SilentTopicDegrades ==
  \A s \in ServiceSet :
    ( /\ RateChecked(s) /\ ~NeverReceived(s)
      /\ frame >= 0 /\ ~Received(s)
      /\ (clock - recv_time[s]) * SERVICE_LIST[s] >= 10 * TicksPerSec )
    => (~alive[s] /\ ~freq_ok[s])

\* C7 amended: in an update that brings no message for a rate-checked topic
\* that has published, alive becomes false exactly when now - recvTime >=
\* 10/f and stays false in later silent updates, while freq_ok and the
\* history keep the values they had after the previous update: freq_ok does
\* not degrade.
C7_SilentTopicKeepsFreqOk ==
  [][ \A s \in ServiceSet :
        ( /\ RateChecked(s) /\ ~NeverReceived(s)
          /\ frame >= 0 /\ ~updated'[s] )
        => /\ alive'[s] <=> (clock' - recv_time[s]) * SERVICE_LIST[s] < 10 * TicksPerSec
           /\ ~alive[s] => ~alive'[s]
           /\ freq_ok'[s] = freq_ok[s]
           /\ recv_dts'[s] = recv_dts[s] ]_vars

\* a rate-checked topic published once, went silent past 10/f, and is
\* reported not alive with freq_ok still true
C7_Witness ==
  \E s \in ServiceSet :
    /\ RateChecked(s) /\ Len(recv_dts[s]) = 1 /\ frame >= 1 /\ ~Received(s)
    /\ (clock - recv_time[s]) * SERVICE_LIST[s] >= 10 * TicksPerSec
    /\ ~alive[s] /\ freq_ok[s]

\* ------------------------------------------------------------------------
\* C8: for every service_list argument, None included, all_checks is the
\* conjunction of all_alive, all_freq_ok and all_valid.
C8_AllChecksIsConjunction ==
  \A sl \in OptLists :
    all_checks(sl) <=> (all_alive(sl) /\ all_freq_ok(sl) /\ all_valid(sl))

\* after an update only the validity check fails, and only for one topic
C8_Witness ==
  /\ frame >= 0
  /\ all_alive(<<NoPoll, {}>>) /\ all_freq_ok(<<NoPoll, {}>>) /\ ~all_valid(<<NoPoll, {}>>)
  /\ ~all_checks(<<NoPoll, {}>>) /\ all_checks(List({"svc0"}))

\* ------------------------------------------------------------------------
\* C9: recv_dts[topic] never holds more than AVG_FREQ_HISTORY = 100
\* entries; a message received with a full history appends its delta at the
\* newest end and evicts exactly the oldest entry, the others keeping their
\* order (below 100 entries the delta is just appended).
C9_HistoryBounded ==
  /\ [](\A s \in ServiceSet : Len(recv_dts[s]) <= AVG_FREQ_HISTORY)
  /\ [][ \A s \in ServiceSet : updated'[s] =>
           recv_dts'[s] =
             (IF Len(recv_dts[s]) = AVG_FREQ_HISTORY THEN Tail(recv_dts[s]) ELSE recv_dts[s])
             \o <<clock' - recv_time[s]>> ]_vars

\* the 101st delta has been appended: the history is full and its first
\* delta, the clock value at the first message, is gone
C9_Witness ==
  /\ frame = AVG_FREQ_HISTORY /\ startTime = BootClock
  /\ Len(recv_dts[FeedTopic]) = AVG_FREQ_HISTORY
  /\ recv_dts[FeedTopic][1] < BootClock

\* ------------------------------------------------------------------------
\* C10: after every update, updated[topic] is true exactly for the topics
\* of which a non-absent message was processed in that update; a flag set
\* in an earlier update does not survive an update without a message.
C10_UpdatedThisTick ==
  frame >= 0 => \A s \in ServiceSet : updated[s] <=> Received(s)

\* a topic that received a message in an earlier update and an absent
\* value in the latest one is not flagged
C10_Witness ==
  \E s \in ServiceSet :
    /\ frame >= 1 /\ ~NeverReceived(s) /\ ~updated[s]
    /\ \E i \in 1..Len(msgs) : msgs[i] = None
    /\ \E r \in ServiceSet : updated[r]

\* ------------------------------------------------------------------------
\* C11: after every update freq_ok is true for every topic the average-rate
\* check does not apply to (no message ever received, non-polled, in the
\* rate-ignore set or in the alive-ignore set); a topic of frequency zero
\* has alive and freq_ok true; freq_ok is false only for a topic the check
\* applies to and whose history mean is not below 1/(0.9 f).
C11_FreqOkDefaultTrue ==
  frame >= 0 =>
    \A s \in ServiceSet :
      /\ ( \/ NeverReceived(s) \/ s \in non_polled_services
           \/ s \in ignore_average_freq \/ s \in ignore_alive ) => freq_ok[s]
      /\ s \notin PosFreq => (alive[s] /\ freq_ok[s])
      /\ ~freq_ok[s] =>
           /\ ~NeverReceived(s) /\ s \in PosFreq
           /\ s \notin non_polled_services
           /\ s \notin ignore_average_freq /\ s \notin ignore_alive
           /\ 9 * SERVICE_LIST[s] * SumSeq(recv_dts[s])
                >= 10 * TicksPerSec * Len(recv_dts[s])

\* one topic fails the rate check while an alive-ignored topic of
\* frequency zero that also received a message reports freq_ok
C11_Witness ==
  /\ frame >= 0
  /\ ~freq_ok["svc20"] /\ freq_ok["svc0"] /\ Received("svc0")
  /\ "svc0" \in ignore_alive

\* ------------------------------------------------------------------------
\* C14 as stated: with a poll list given, every tracked topic outside the
\* list is non-polled, for every list, the empty one included.
C14_OutsidePollIsNonPolled ==
  poll[1] # NoPoll => non_polled_services = ServiceSet \ poll[2]

\* C14 amended: with a non-empty poll list, every tracked topic outside the
\* list is non-polled: it is not registered with the poller and read with
\* one non-blocking receive in every update; with an empty poll list, as
\* with poll = None, every tracked topic is polled and none is non-polled.
C14_NonEmptyPollSplits ==
  /\ (poll[1] # NoPoll /\ poll[2] # {}) => non_polled_services = ServiceSet \ poll[2]
  /\ (poll[1] = NoPoll \/ poll[2] = {}) => non_polled_services = {}
  /\ \A i \in 1..Len(PolledList) : PolledList[i] \notin non_polled_services
  /\ frame >= 0 =>
       /\ Cardinality({i \in 1..Len(msgs) :
                         msgs[i] = None \/ msgs[i].which \in non_polled_services})
            = Cardinality(non_polled_services)
       /\ non_polled_services = {} => \A i \in 1..Len(msgs) : msgs[i] # None

\* an update with an empty poll list: nothing is non-polled, and a message
\* came through the poller
C14_Witness ==
  /\ poll = <<"list", {}>> /\ non_polled_services = {}
  /\ frame >= 0 /\ Received("svc20") /\ Received("svc0")

\* ------------------------------------------------------------------------
\* C18: an update without a message for a topic leaves the topic's
\* recv_time, recv_frame, data, logMonoTime, valid and recv_dts unchanged;
\* valid keeps the flag of the last message however stale the topic is.
C18_SilentUpdateFrame ==
  [][ \A s \in ServiceSet :
        ~updated'[s] =>
          /\ recv_time'[s] = recv_time[s]
          /\ recv_frame'[s] = recv_frame[s]
          /\ data'[s] = data[s]
          /\ logMonoTime'[s] = logMonoTime[s]
          /\ valid'[s] = valid[s]
          /\ recv_dts'[s] = recv_dts[s] ]_vars

\* a topic received an invalid message, another topic received one in a
\* later update, and the first is stale by then: it keeps flag and frame
C18_Witness ==
  /\ frame >= 1 /\ ~NeverReceived("svc20") /\ ~updated["svc20"] /\ updated["svc0"]
  /\ ~alive["svc20"] /\ ~valid["svc20"] /\ recv_frame["svc20"] < frame
  /\ data["svc20"] # 0 /\ logMonoTime["svc20"] # 0

\* ------------------------------------------------------------------------
\* C19: after at least one update, for every tracked topic recv_frame <=
\* frame; updated holds exactly when a message of the topic was processed
\* in the latest update, and then recv_frame = frame, recv_time is the time
\* of that update and the newest entry of recv_dts is that time minus the
\* previous recv_time (minus 0 for the first message ever).
C19_ReceiptBookkeeping ==
  /\ [](frame >= 0 =>
          \A s \in ServiceSet :
            /\ recv_frame[s] <= frame
            /\ updated[s] <=> (recv_frame[s] = frame /\ Received(s))
            /\ updated[s] =>
                 /\ recv_time[s] = clock
                 /\ recv_dts[s] # <<>>
                 /\ NeverReceived(s) = FALSE)
  /\ [][ \A s \in ServiceSet :
           updated'[s] =>
             /\ recv_dts'[s][Len(recv_dts'[s])] = clock' - recv_time[s]
             /\ NeverReceived(s) => recv_dts'[s] = <<clock'>> ]_vars

\* a second message of a topic: its delta is the time between the two,
\* after a first delta that was the clock value
C19_Witness ==
  \E s \in ServiceSet :
    /\ frame >= 1 /\ updated[s] /\ Len(recv_dts[s]) = 2
    /\ recv_dts[s][1] >= BootClock /\ recv_dts[s][2] = 4
    /\ recv_frame[s] = frame /\ recv_time[s] = clock

\* ------------------------------------------------------------------------
\* C20: after at least one update all_freq_ok(subset) is the conjunction of
\* freq_ok[topic] over the subset; before the first update every
\* freq_ok[topic] is false and all_freq_ok(subset) is true for every subset.
C20_AllFreqOkIsPlainConjunction ==
  \A sl \in OptLists :
    /\ frame >= 0 => (all_freq_ok(sl) <=> \A s \in ServiceListOf(sl) : freq_ok[s])
    /\ frame = -1 => (all_freq_ok(sl) /\ \A s \in ServiceSet : ~freq_ok[s])

\* after an update the rate check fails for one topic only
C20_Witness ==
  /\ frame >= 0 /\ ~freq_ok["svc20"]
  /\ ~all_freq_ok(<<NoPoll, {}>>) /\ ~all_freq_ok(List({"svc20"}))
  /\ all_freq_ok(List({"svc0"}))

\* ------------------------------------------------------------------------
\* C12 as stated: wait_for_readers_to_update returns true, within one poll
\* interval, when all_readers_updated becomes true before the timeout has
\* elapsed, and false when it never becomes true, for every timeout >= 0
\* and dt > 0.
C12_WaitFollowsPredicate ==
  pub.pc = "done" =>
    /\ (pub.trueAt >= 0 /\ pub.trueAt < pub.timeout) =>
         (pub.ret /\ pub.t <= pub.trueAt + pub.dt)
    /\ pub.trueAt = -1 => ~pub.ret

\* ------------------------------------------------------------------------
\* C13: with n >= 1 messages queued and no arrival during the call,
\* recv_sock returns the decoded n-th message only and the drain functions
\* return all n in arrival order (decoded by drain_sock, raw by
\* drain_sock_raw), and the queue is left empty; on an empty queue without
\* waiting recv_sock returns the absent value and the drains an empty list.
C13_KeepLatestAndDrainAll ==
  ( /\ sock.pc = "done" /\ sock.arrivals = 0
    /\ sock.fn \in {"recv_sock", "drain_sock", "drain_sock_raw"}
    /\ (Len(sock.q0) >= 1 \/ ~sock.wait) )
  => /\ sock.q = <<>>
     /\ sock.fn = "recv_sock" =>
          sock.dat = IF sock.q0 = <<>> THEN [kind |-> "none", id |-> 0]
                     ELSE [kind |-> "event", id |-> sock.q0[Len(sock.q0)].id]
     /\ sock.fn = "drain_sock" =>
          sock.ret = [i \in 1..Len(sock.q0) |-> [kind |-> "event", id |-> sock.q0[i].id]]
     /\ sock.fn = "drain_sock_raw" => sock.ret = sock.q0

\* recv_sock returned the last of three queued messages, after two calls
\* had consumed an earlier one
C13_Witness ==
  /\ sock.pc = "done" /\ sock.fn = "recv_sock" /\ sock.arrivals = 0
  /\ Len(sock.q0) >= 3 /\ sock.q0[1].id > 1
  /\ sock.dat.kind = "event" /\ sock.dat.id = sock.sent /\ sock.q = <<>>

\* ------------------------------------------------------------------------
\* C15: all_alive, all_freq_ok, all_valid, all_checks and __getitem__ leave
\* frame and every per-topic dictionary unchanged (only update() changes
\* them), and the dictionaries are keyed by the topics given at
\* construction in every reachable state.
C15_QueriesChangeNothing ==
  /\ [][ (call' # call \/ frame' = frame) =>
           /\ frame' = frame
           /\ UNCHANGED <<updated, recv_time, recv_frame, alive, freq_ok,
                          valid, logMonoTime, data, recv_dts>> ]_vars
  /\ [](/\ DOMAIN updated = ServiceSet /\ DOMAIN recv_time = ServiceSet
        /\ DOMAIN recv_frame = ServiceSet /\ DOMAIN alive = ServiceSet
        /\ DOMAIN freq_ok = ServiceSet /\ DOMAIN valid = ServiceSet
        /\ DOMAIN logMonoTime = ServiceSet /\ DOMAIN data = ServiceSet
        /\ DOMAIN recv_dts = ServiceSet)

\* all_checks was called after an update that received a message, returned
\* false, and the updated flag is still there
C15_Witness ==
  /\ frame >= 0 /\ call.op = "all_checks" /\ ~call.ret
  /\ updated["svc20"] /\ ~valid["svc20"]

\* ------------------------------------------------------------------------
\* C16: recv_one_retry never returns the absent value: it returns the
\* decoded first message that arrives; a receive that returns None is
\* followed by another receive, so on an empty queue the call does not
\* return; once a message is in the queue the call returns.
C16_RetryUntilMessage ==
  /\ []( (sock.fn = "recv_one_retry" /\ sock.pc = "done") =>
           /\ sock.dat.kind = "event"
           /\ sock.dat.id = IF sock.q0 # <<>> THEN sock.q0[1].id
                            ELSE sock.sent - sock.arrivals + 1 )
  /\ [][ (sock.fn = "recv_one_retry" /\ sock.pc = "loop" /\ sock.q = <<>>) =>
           sock'.pc = "loop" ]_vars
  /\ ( (sock.fn = "recv_one_retry" /\ sock.pc = "loop" /\ sock.q # <<>>)
         ~> (sock.fn = "recv_one_retry" /\ sock.pc = "done") )

\* the call received None twice on an empty queue, then returned the
\* message that arrived
C16_Witness ==
  /\ sock.fn = "recv_one_retry" /\ sock.pc = "done"
  /\ sock.q0 = <<>> /\ sock.retries >= 2 /\ sock.dat.kind = "event"

\* ------------------------------------------------------------------------
\* C17: with wait set, drain_sock, drain_sock_raw and recv_sock make their
\* first receive blocking and every later one non-blocking; when the first
\* receive returns the absent value the call is over after that one
\* receive, with an empty list or the absent value.
C17_BlockOnFirstOnly ==
  (sock.fn \in {"recv_sock", "drain_sock", "drain_sock_raw"} /\ sock.wait) =>
    /\ \A i \in 1..Len(sock.log) :
         sock.log[i].mode = IF i = 1 THEN "blocking" ELSE "non_blocking"
    /\ (Len(sock.log) >= 1 /\ sock.log[1].got.kind = "none") =>
         /\ sock.pc = "done" /\ Len(sock.log) = 1
         /\ sock.ret = <<>> /\ sock.dat.kind = "none"

\* a waiting drain made a blocking receive, two non-blocking ones that
\* returned messages and a last one that found the queue empty
C17_Witness ==
  /\ sock.fn = "drain_sock" /\ sock.wait /\ sock.pc = "done"
  /\ Len(sock.log) >= 4 /\ sock.log[1].mode = "blocking"
  /\ sock.log[3].mode = "non_blocking" /\ Len(sock.ret) >= 3

====
